---- MODULE Spec2Model ----
(***************************************************************************)
(* A model of the func-help monad library: the branching containers        *)
(* Either and Except, the deferred-effect containers IO and AsyncIO, the   *)
(* state containers State and StateT, and the generator-driven Do          *)
(* interpreter.                                                            *)
(*                                                                         *)
(* Containers that hold a closure (IO, AsyncIO, State, StateT) are         *)
(* represented by the term that built the closure; running the term        *)
(* executes the closure's body as the source writes it.  Caller-supplied   *)
(* functions are named, and every invocation of one is appended to the     *)
(* event log, so "f is never invoked" and "the order of effects" are       *)
(* statements about the log.                                               *)
(***************************************************************************)
EXTENDS Integers, Sequences, FiniteSets, TLC

VARIABLES
    cur,      \* the container the session holds (a value or a closure term)
    log,      \* observable events: invocations of caller functions and effects
    iters,    \* the heap of generator iterators created by Do.run
    lastOp,   \* the API call that produced this state, with its arguments
    steps,    \* number of combinator calls made on the current chain
    skipped,  \* number of map/flatMap calls made on a failure-branch container
    outs,     \* results returned (or faults thrown) by the run() calls so far
    twin,     \* the hand-written flatMap chain kept beside a Do-built container
    twinLog,  \* the event log of the hand-written chain
    twinOuts, \* the results of running the hand-written chain
    lhs,      \* law checking: the observation of the left-hand side
    rhs,      \* law checking: the observation of the right-hand side
    procs,    \* AsyncIO: the pending computations of the run() calls made
    isolated  \* AsyncIO: how one run() of cur, left alone, settles

vars == <<cur, log, iters, lastOp, steps, skipped, outs, twin, twinLog,
          twinOuts, lhs, rhs, procs, isolated>>

(***************************************************************************)
(* Bounds of the model.                                                    *)
(***************************************************************************)
MaxNum == 2
MaxSteps == 2
MaxRuns == 2
MaxYields == 2
MaxAsyncSteps == 1
MaxAsyncRuns == 2
MaxAsyncYields == 1

(***************************************************************************)
(* Host values.                                                            *)
(***************************************************************************)
Num(n) == [k |-> "num", n |-> n]
ErrObj(n) == [k |-> "err", n |-> n]
Str(n) == [k |-> "str", n |-> n]
Null == [k |-> "null", n |-> 0]
Undef == [k |-> "undef", n |-> 0]
Pair(a, s) == [k |-> "pair", a |-> a, s |-> s]

Nums == {Num(n) : n \in 0..MaxNum}
Errors == {ErrObj(0), ErrObj(1)}
Values == Nums \cup Errors \cup {Null, Undef, Str(0)}

\* value instanceof Error
InstanceOfError(v) == v.k = "err"

\* value == null (loose equality: null or undefined)
IsNullish(v) == v.k \in {"null", "undef"}

None == [fam |-> "none"]

(***************************************************************************)
(* The world a call runs in, and what a call gives back: a normal return   *)
(* (ok) of val, or a thrown fault val, and the world after it.             *)
(***************************************************************************)
World(l, h) == [log |-> l, iters |-> h]
Ret(v, w) == [ok |-> TRUE, val |-> v, w |-> w]
Throw(v, w) == [ok |-> FALSE, val |-> v, w |-> w]
Logged(w, e) == [w EXCEPT !.log = Append(@, e)]
CallEvent(f, x) == [ev |-> "call", f |-> f, arg |-> x]
EffectEvent(e, x) == [ev |-> "effect", f |-> e, arg |-> x]

(***************************************************************************)
(* Either (src/monads/Either.ts).                                          *)
(***************************************************************************)
EitherLeft(v) == [fam |-> "Either", tag |-> "left", value |-> v]
EitherRight(v) == [fam |-> "Either", tag |-> "right", value |-> v]
EitherOf(v) == EitherRight(v)
isLeft(m) == m.tag = "left"
isRight(m) == m.tag = "right"

(***************************************************************************)
(* Except (src/monads/Except.ts): one stored field; the branch is read     *)
(* back from it with instanceof Error.                                     *)
(***************************************************************************)
NewExcept(v) == [fam |-> "Except", value |-> v]
ExceptFailed(e) == NewExcept(e)
ExceptOk(v) == NewExcept(v)
ExceptOf(v) == ExceptOk(v)
isError(m) == InstanceOfError(m.value)
isOk(m) == ~InstanceOfError(m.value)

(***************************************************************************)
(* Caller-supplied functions.  A function is a record naming it; the pure  *)
(* ones are total on Values.                                               *)
(***************************************************************************)
Fn(name) == [fn |-> name]
KFn(name, fam) == [fn |-> name, fam |-> fam]

PureFns == {Fn("id"), Fn("inc"), Fn("mkErr"), Fn("mkNull")}

Inc(x) == IF x.k = "num" THEN Num((x.n + 1) % (MaxNum + 1)) ELSE x

\* the running sum a generator keeps of the payloads fed back into it
Add(acc, v) == IF v.k = "num" THEN Num((acc.n + v.n) % (MaxNum + 1)) ELSE acc

PureResult(name, x) ==
    CASE name = "id" -> x
      [] name = "inc" -> Inc(x)
      [] name = "mkErr" -> ErrObj(0)
      [] name = "mkNull" -> Null

\* Thunks handed to from(), tryCatch() and fromNullable(): each execution is
\* one observable effect.
\*   now            reads a fixed instant
\*   read           reads an input
\*   putStrLn(msg)  prints msg, returns nothing
\*   retErr         returns an Error object as its value
\*   retNull        returns null
\*   throwErr       throws an Error object
\*   throwStr       throws a string
Thunk(name) == [fn |-> name, msg |-> Undef]
Now == Thunk("now")
PutStrLn(msg) == [fn |-> "putStrLn", msg |-> msg]
ThunkValue(e) ==
    CASE e.fn = "now" -> Num(1)
      [] e.fn = "read" -> Num(2 % (MaxNum + 1))
      [] e.fn = "putStrLn" -> Undef
      [] e.fn = "retErr" -> ErrObj(0)
      [] e.fn = "retNull" -> Null
      [] e.fn = "throwErr" -> ErrObj(1)
      [] e.fn = "throwStr" -> Str(0)
ThunkThrows(e) == e.fn \in {"throwErr", "throwStr"}
RunThunk(e, w) ==
    LET w1 == Logged(w, EffectEvent(e, e.msg))
    IN  IF ThunkThrows(e) THEN Throw(ThunkValue(e), w1) ELSE Ret(ThunkValue(e), w1)

\* an optional function argument that was not passed
NoFn == [fn |-> "none"]

(***************************************************************************)
(* Closure-holding containers are terms: the constructor or combinator     *)
(* that built the closure together with what the closure captured.         *)
(***************************************************************************)
LazyOf(fam, v) == [fam |-> fam, op |-> "of", v |-> v]
LazyFrom(fam, e) == [fam |-> fam, op |-> "from", e |-> e]
LazyMap(m, f) == [fam |-> m.fam, op |-> "map", m |-> m, f |-> f]
LazyFlatMap(m, f) == [fam |-> m.fam, op |-> "flatMap", m |-> m, f |-> f]
LazyTap(m, f) == [fam |-> m.fam, op |-> "tap", m |-> m, f |-> f]

\* State constructors (State.ts 30, 73-90; Do.ts 93)
StateReturn(v) == [fam |-> "State", op |-> "of", v |-> v]
StateOf(v) == StateReturn(v)
StateGet == [fam |-> "State", op |-> "get"]
\* a put that leaves the state as it finds it
StatePutNothing(n) == [fam |-> "State", op |-> "of", v |-> Undef]
StatePut(n) == [fam |-> "State", op |-> "put", v |-> n]
StateModify(f) == [fam |-> "State", op |-> "modify", f |-> f]
StateGets(f) == [fam |-> "State", op |-> "gets", f |-> f]

\* StateT constructors (State.ts 151-161, 182-205); Mof names the family whose
\* "of" was passed in.
StateTOf(v, Mof) == [fam |-> "StateT", op |-> "of", v |-> v, Mof |-> Mof]
StateTLift(ma, Mof) == [fam |-> "StateT", op |-> "lift", ma |-> ma, Mof |-> Mof]
StateTGet(Mof) == [fam |-> "StateT", op |-> "get", Mof |-> Mof]
StateTPut(n, Mof) == [fam |-> "StateT", op |-> "put", v |-> n, Mof |-> Mof]
StateTModify(f, Mof) == [fam |-> "StateT", op |-> "modify", f |-> f, Mof |-> Mof]
StateTGets(f, Mof) == [fam |-> "StateT", op |-> "gets", f |-> f, Mof |-> Mof]
StateTMap(m, f) == [fam |-> "StateT", op |-> "map", m |-> m, f |-> f, Mof |-> m.Mof]
StateTFlatMap(m, f) ==
    [fam |-> "StateT", op |-> "flatMap", m |-> m, f |-> f, Mof |-> m.Mof]

\* the family's "of", as it is passed to Do.run and StateT
Of(fam, v) ==
    CASE fam = "Either" -> EitherOf(v)
      [] fam = "Except" -> ExceptOf(v)
      [] fam = "IO" -> LazyOf("IO", v)
      [] fam = "AsyncIO" -> LazyOf("AsyncIO", v)
      [] fam = "State" -> StateOf(v)
      [] fam = "StateT" -> StateTOf(v, "Either")

\* Functions returning a container of family f.fam:
\*   kOfInc  x => of(x + 1)
\*   kFail   x => a failure (Either.left, Except.failed, lifted Left)
\*   kPut    x => an effect or state change that uses x
\*   kGet    x => a read (the current state; the instant)
KleisliResult(f, x) ==
    CASE f.fn = "kOfInc" -> Of(f.fam, Inc(x))
      [] f.fn = "kFail" ->
            CASE f.fam = "Either" -> EitherLeft(Str(0))
              [] f.fam = "Except" -> ExceptFailed(ErrObj(1))
              [] f.fam = "StateT" -> StateTLift(EitherLeft(Str(0)), "Either")
              [] OTHER -> Of(f.fam, Undef)
      [] f.fn = "kPut" ->
            CASE f.fam \in {"IO", "AsyncIO"} -> LazyFrom(f.fam, PutStrLn(x))
              [] f.fam = "State" -> StatePut(x)
              [] f.fam = "StateT" -> StateTPut(x, "Either")
              [] OTHER -> Of(f.fam, x)
      [] f.fn = "kGet" ->
            CASE f.fam \in {"IO", "AsyncIO"} -> LazyFrom(f.fam, Thunk("read"))
              [] f.fam = "State" -> StateGet
              [] f.fam = "StateT" -> StateTGet("Either")
              [] OTHER -> Of(f.fam, x)

KleisliNames(fam) ==
    IF fam \in {"Either", "Except"} THEN {"kOfInc", "kFail"}
    ELSE IF fam = "StateT" THEN {"kOfInc", "kFail", "kPut", "kGet"}
    ELSE {"kOfInc", "kPut", "kGet"}
KleisliFns(fam) == {KFn(n, fam) : n \in KleisliNames(fam)}

(***************************************************************************)
(* Generators (the producers handed to Do.run).  A producer yields the     *)
(* containers ys in order, adds up the payloads fed back into it, and      *)
(* returns the sum.  An iterator is the suspended producer: pos is the     *)
(* number of yields it has made, acc its running sum.                      *)
(***************************************************************************)
Gen(fam, ys) == [fam |-> fam, ys |-> ys]
NewIterator(g) == [gen |-> g, pos |-> 0, acc |-> Num(0), done |-> FALSE]
NextEvent(id, val) == [ev |-> "next", f |-> [fn |-> "iterator", it |-> id], arg |-> val]

\* iterator.next(val): the argument of the first call is dropped; a finished
\* generator answers {done: true, value: undefined} for ever.
IterNext(id, val, w) ==
    LET it == w.iters[id]
        w1 == Logged(w, NextEvent(id, val))
        acc1 == IF it.pos = 0 THEN it.acc ELSE Add(it.acc, val)
    IN  IF it.done
        THEN [done |-> TRUE, value |-> Undef, w |-> w1]
        ELSE IF it.pos < Len(it.gen.ys)
        THEN [done |-> FALSE, value |-> it.gen.ys[it.pos + 1],
              w |-> [w1 EXCEPT !.iters[id] =
                        [it EXCEPT !.pos = it.pos + 1, !.acc = acc1]]]
        ELSE [done |-> TRUE, value |-> acc1,
              w |-> [w1 EXCEPT !.iters[id] =
                        [it EXCEPT !.acc = acc1, !.done = TRUE]]]

\* the continuation Do.run's step passes to flatMap: it closes over the one
\* iterator and the family's of
DoK(id, of) == [fn |-> "doK", it |-> id, of |-> of]

\* the continuation of the hand-written chain for producer g after its
\* pos-th container, with the sum acc of the payloads seen so far
ManK(of, g, pos, acc) ==
    [fn |-> "manK", of |-> of, g |-> g, pos |-> pos, acc |-> acc]

\* closures StateT passes to the underlying container
\* the closure () => m a caller writes to chain a container it already holds
Konst(m) == [fn |-> "konst", m |-> m]

\* closures a caller writes: x => g(f(x)) and x => f(x).flatMap(g)
Comp(f, g) == [fn |-> "comp", f |-> f, g |-> g]
BindK(f, g) == [fn |-> "bindK", f |-> f, g |-> g]

StK(f) == [fn |-> "stK", f |-> f]
StMap(f) == [fn |-> "stMap", f |-> f]
StLift(s) == [fn |-> "stLift", s |-> s]
Fst == [fn |-> "fst"]
Snd == [fn |-> "snd"]

RECURSIVE Apply(_, _, _)
RECURSIVE Map(_, _, _)
RECURSIVE FlatMap(_, _, _)
RECURSIVE DoStep(_, _, _, _)
RECURSIVE runStateT(_, _, _)
RECURSIVE IORun(_, _)
RECURSIVE StateRun(_, _, _)

\* a map that forgets to look at the branch
EitherMapAnyBranch(m, f, w) ==
    LET r == Apply(f, m.value, w)
    IN  IF r.ok THEN Ret(EitherRight(r.val), r.w) ELSE r

\* Either.map
EitherMap(m, f, w) ==
    IF isRight(m)
    THEN LET r == Apply(f, m.value, w)
         IN  IF r.ok THEN Ret(EitherRight(r.val), r.w) ELSE r
    ELSE Ret(m, w)

\* a flatMap that forgets to look at the branch
EitherFlatMapAnyBranch(m, f, w) == Apply(f, m.value, w)

\* Either.flatMap
EitherFlatMap(m, f, w) ==
    IF isRight(m) THEN Apply(f, m.value, w) ELSE Ret(m, w)

\* Except.map
ExceptMap(m, f, w) ==
    IF InstanceOfError(m.value)
    THEN Ret(m, w)
    ELSE LET r == Apply(f, m.value, w)
         IN  IF r.ok THEN Ret(ExceptOk(r.val), r.w) ELSE r

\* Except.flatMap
ExceptFlatMap(m, f, w) ==
    IF InstanceOfError(m.value) THEN Ret(m, w) ELSE Apply(f, m.value, w)

\* a map that runs the wrapped computation when the chain is built
IOMapEager(m, f, w) ==
    LET r == IORun(m, w)
        o == Apply(f, r.val, r.w)
    IN  IF ~r.ok THEN r ELSE IF o.ok THEN Ret(LazyOf("IO", o.val), o.w) ELSE o

\* IO.map, IO.flatMap, IO.tap and their AsyncIO, State and StateT namesakes
\* only allocate the new closure
IOMap(m, f, w) == Ret(LazyMap(m, f), w)
IOFlatMap(m, f, w) == Ret(LazyFlatMap(m, f), w)
IOTap(m, f, w) == Ret(LazyTap(m, f), w)
AsyncIOMap(m, f, w) == Ret(LazyMap(m, f), w)
AsyncIOFlatMap(m, f, w) == Ret(LazyFlatMap(m, f), w)
AsyncIOTap(m, f, w) == Ret(LazyTap(m, f), w)
StateMap(m, f, w) == Ret(LazyMap(m, f), w)
StateFlatMap(m, f, w) == Ret(LazyFlatMap(m, f), w)

\* m.map(f), dispatched on the class of m
Map(m, f, w) ==
    CASE m.fam = "Either" -> EitherMap(m, f, w)
      [] m.fam = "Except" -> ExceptMap(m, f, w)
      [] m.fam = "IO" -> IOMap(m, f, w)
      [] m.fam = "AsyncIO" -> AsyncIOMap(m, f, w)
      [] m.fam = "State" -> StateMap(m, f, w)
      [] m.fam = "StateT" -> Ret(StateTMap(m, f), w)

\* m.flatMap(f), dispatched on the class of m
FlatMap(m, f, w) ==
    CASE m.fam = "Either" -> EitherFlatMap(m, f, w)
      [] m.fam = "Except" -> ExceptFlatMap(m, f, w)
      [] m.fam = "IO" -> IOFlatMap(m, f, w)
      [] m.fam = "AsyncIO" -> AsyncIOFlatMap(m, f, w)
      [] m.fam = "State" -> StateFlatMap(m, f, w)
      [] m.fam = "StateT" -> Ret(StateTFlatMap(m, f), w)

\* Do.run's step(iter)
DoStep(of, id, iter, w) ==
    IF iter.done
    THEN Ret(Of(of, iter.value), w)
    ELSE FlatMap(iter.value, DoK(id, of), w)

\* Do.run(of, gen): the iterator is created once, here
DoRun(of, g, w) ==
    LET id == Len(w.iters) + 1
        w0 == [w EXCEPT !.iters = Append(@, NewIterator(g))]
        first == IterNext(id, Undef, w0)
    IN  DoStep(of, id, first, first.w)

\* the same block written by hand: m1.flatMap(v1 => m2.flatMap(v2 => ... of(r)))
ManualChain(of, g, w) ==
    IF Len(g.ys) = 0
    THEN Ret(Of(of, Num(0)), w)
    ELSE FlatMap(g.ys[1], ManK(of, g, 1, Num(0)), w)

\* f(x): a call of a caller-supplied function is logged; the library's own
\* closures are not
Apply(f, x, w) ==
    CASE f \in PureFns -> Ret(PureResult(f.fn, x), Logged(w, CallEvent(f, x)))
      [] f.fn = "boom" -> Throw(Str(0), Logged(w, CallEvent(f, x)))
      [] f.fn = "konst" -> Ret(f.m, Logged(w, CallEvent(f, x)))
      [] f.fn \in {"kOfInc", "kFail", "kPut", "kGet"} ->
            Ret(KleisliResult(f, x), Logged(w, CallEvent(f, x)))
      [] f.fn = "doK" ->
            \* (val) => step(iterator.next(val))
            LET iter == IterNext(f.it, x, w)
            IN  DoStep(f.of, f.it, iter, iter.w)
      [] f.fn = "manK" ->
            LET acc1 == Add(f.acc, x)
            IN  IF f.pos = Len(f.g.ys)
                THEN Ret(Of(f.of, acc1), w)
                ELSE FlatMap(f.g.ys[f.pos + 1],
                             [f EXCEPT !.pos = f.pos + 1, !.acc = acc1], w)
      [] f.fn = "stK" ->
            \* ([a, s1]) => f(a).runStateT(s1)
            LET r == Apply(f.f, x.a, w)
            IN  IF r.ok THEN runStateT(r.val, x.s, r.w) ELSE r
      [] f.fn = "stMap" ->
            \* ([a, s1]) => [f(a), s1]
            LET r == Apply(f.f, x.a, w)
            IN  IF r.ok THEN Ret(Pair(r.val, x.s), r.w) ELSE r
      [] f.fn = "stLift" -> Ret(Pair(x, f.s), w)
      [] f.fn = "comp" ->
            LET r == Apply(f.f, x, w)
            IN  IF r.ok THEN Apply(f.g, r.val, r.w) ELSE r
      [] f.fn = "bindK" ->
            LET r == Apply(f.f, x, w)
            IN  IF r.ok THEN FlatMap(r.val, f.g, r.w) ELSE r
      [] f.fn = "fst" -> Ret(x.a, w)
      [] f.fn = "snd" -> Ret(x.s, w)

\* a lift transition that pairs the payload with no state
StateTLiftDropState(t, s, w) == Map(t.ma, StLift(Undef), w)

\* the transition of StateT.lift: (s) => ma.map((a) => [a, s])
StateTLiftRunStateT(t, s, w) == Map(t.ma, StLift(s), w)

\* a flatMap transition that goes on with f(undefined), from s0, when the
\* underlying container is a failure
StateTFlatMapRecovering(t, s, w) ==
    LET r == runStateT(t.m, s, w)
        k == Apply(t.f, Undef, r.w)
    IN  IF ~r.ok THEN r
        ELSE IF isLeft(r.val)
             THEN IF k.ok THEN runStateT(k.val, s, k.w) ELSE k
             ELSE FlatMap(r.val, StK(t.f), r.w)

\* the transition of StateT.flatMap:
\* (s0) => this.runStateT(s0).flatMap(([a, s1]) => f(a).runStateT(s1))
StateTFlatMapRunStateT(t, s, w) ==
    LET r == runStateT(t.m, s, w)
    IN  IF r.ok THEN FlatMap(r.val, StK(t.f), r.w) ELSE r

\* StateT.runStateT(s): the transition, giving a container of the underlying
\* family that holds the pair
runStateT(t, s, w) ==
    CASE t.op = "of" -> Ret(Of(t.Mof, Pair(t.v, s)), w)
      [] t.op = "lift" -> StateTLiftRunStateT(t, s, w)
      [] t.op = "get" -> Ret(Of(t.Mof, Pair(s, s)), w)
      [] t.op = "put" -> Ret(Of(t.Mof, Pair(Undef, t.v)), w)
      [] t.op = "modify" ->
            LET r == Apply(t.f, s, w)
            IN  IF r.ok THEN Ret(Of(t.Mof, Pair(Undef, r.val)), r.w) ELSE r
      [] t.op = "gets" ->
            LET r == Apply(t.f, s, w)
            IN  IF r.ok THEN Ret(Of(t.Mof, Pair(r.val, s)), r.w) ELSE r
      [] t.op = "map" ->
            LET r == runStateT(t.m, s, w)
            IN  IF r.ok THEN Map(r.val, StMap(t.f), r.w) ELSE r
      [] t.op = "flatMap" -> StateTFlatMapRunStateT(t, s, w)

\* StateT.run / eval / exec
StateTRun(t, initial, w) == runStateT(t, initial, w)
MapPair(r, f) == IF r.ok THEN Map(r.val, f, r.w) ELSE r
StateTEval(t, initial, w) == MapPair(runStateT(t, initial, w), Fst)
StateTExec(t, initial, w) == MapPair(runStateT(t, initial, w), Snd)

\* a flatMap closure that evaluates this.effect() a second time
IOFlatMapEffectTwice(t, w) ==
    LET r0 == IORun(t.m, w)
        r == IORun(t.m, r0.w)
        k == Apply(t.f, r.val, r.w)
    IN  IF ~r0.ok THEN r0
        ELSE IF ~r.ok THEN r ELSE IF k.ok THEN IORun(k.val, k.w) ELSE k

\* the closure of IO.flatMap: () => f(this.effect()).run()
IOFlatMapEffect(t, w) ==
    LET r == IORun(t.m, w)
        k == Apply(t.f, r.val, r.w)
    IN  IF ~r.ok THEN r ELSE IF k.ok THEN IORun(k.val, k.w) ELSE k

\* IO.run(): this.effect()
IORun(t, w) ==
    CASE t.op = "of" -> Ret(t.v, w)
      [] t.op = "from" -> RunThunk(t.e, w)
      [] t.op = "map" ->
            \* () => f(this.effect())
            LET r == IORun(t.m, w)
            IN  IF r.ok THEN Apply(t.f, r.val, r.w) ELSE r
      [] t.op = "flatMap" -> IOFlatMapEffect(t, w)
      [] t.op = "tap" ->
            LET r == IORun(t.m, w)
                o == Apply(t.f, r.val, r.w)
            IN  IF ~r.ok THEN r ELSE IF o.ok THEN Ret(r.val, o.w) ELSE o

\* a flatMap transition that runs f(a) from the state the chain was entered with
StateFlatMapReplayState(t, s, w) ==
    LET r == StateRun(t.m, s, w)
        k == Apply(t.f, r.val.a, r.w)
    IN  IF ~r.ok THEN r
        ELSE IF k.ok THEN StateRun(k.val, s, k.w) ELSE k

\* the transition of State.flatMap:
\* (s0) => { const [a, s1] = this.runState(s0); return f(a).runState(s1) }
StateFlatMapRunState(t, s, w) ==
    LET r == StateRun(t.m, s, w)
        k == Apply(t.f, r.val.a, r.w)
    IN  IF ~r.ok THEN r
        ELSE IF k.ok THEN StateRun(k.val, r.val.s, k.w) ELSE k

\* State.run(initial): this.runState(initial), giving the pair [a, s]
StateRun(t, s, w) ==
    CASE t.op = "of" -> Ret(Pair(t.v, s), w)
      [] t.op = "get" -> Ret(Pair(s, s), w)
      [] t.op = "put" -> Ret(Pair(Undef, t.v), w)
      [] t.op = "modify" ->
            LET r == Apply(t.f, s, w)
            IN  IF r.ok THEN Ret(Pair(Undef, r.val), r.w) ELSE r
      [] t.op = "gets" ->
            LET r == Apply(t.f, s, w)
            IN  IF r.ok THEN Ret(Pair(r.val, s), r.w) ELSE r
      [] t.op = "map" ->
            LET r == StateRun(t.m, s, w)
                o == Apply(t.f, r.val.a, r.w)
            IN  IF ~r.ok THEN r
                ELSE IF o.ok THEN Ret(Pair(o.val, r.val.s), o.w) ELSE o
      [] t.op = "flatMap" -> StateFlatMapRunState(t, s, w)

\* Except.fold(onError, onSuccess)
ExceptFold(m, onError, onSuccess, w) ==
    IF InstanceOfError(m.value)
    THEN Apply(onError, m.value, w)
    ELSE Apply(onSuccess, m.value, w)

\* Except.getOrElse(fallback)
ExceptGetOrElse(m, fallback, w) ==
    IF InstanceOfError(m.value) THEN Apply(fallback, m.value, w) ELSE Ret(m.value, w)

\* State.exec(initial): this.runState(initial)[1]
StateExec(t, initial, w) ==
    LET r == StateRun(t, initial, w) IN IF r.ok THEN Ret(r.val.s, r.w) ELSE r

\* Either.fromNullable(value, onNull)
EitherFromNullable(value, onNull, w) ==
    IF IsNullish(value)
    THEN LET r == RunThunk(onNull, w)
         IN  IF r.ok THEN Ret(EitherLeft(r.val), r.w) ELSE r
    ELSE Ret(EitherRight(value), w)

\* Either.tryCatch(effect, onError?)
EitherTryCatch(effect, onError, w) ==
    LET r == RunThunk(effect, w)
        h == Apply(onError, r.val, r.w)
    IN  IF r.ok THEN Ret(EitherRight(r.val), r.w)
        ELSE IF onError = NoFn THEN Ret(EitherLeft(r.val), r.w)
        ELSE IF h.ok THEN Ret(EitherLeft(h.val), h.w) ELSE h

\* Except.fromNullable(value, onNull)
ExceptFromNullable(value, onNull, w) ==
    IF IsNullish(value)
    THEN LET r == RunThunk(onNull, w)
         IN  IF r.ok THEN Ret(ExceptFailed(r.val), r.w) ELSE r
    ELSE Ret(ExceptOk(value), w)

\* Except.tryCatch(effect, onError?)
ExceptTryCatch(effect, onError, w) ==
    LET r == RunThunk(effect, w)
        h == Apply(onError, r.val, r.w)
    IN  IF r.ok THEN Ret(ExceptOk(r.val), r.w)
        ELSE IF onError = NoFn THEN Ret(ExceptFailed(r.val), r.w)
        ELSE IF h.ok THEN Ret(ExceptFailed(h.val), h.w) ELSE h

\* the failure branch of a branching container, as its own inspector reports it
IsFailure(m) == IF m.fam = "Either" THEN isLeft(m) ELSE isError(m)
IsBranching(m) == m.fam \in {"Either", "Except"}

(***************************************************************************)
(* The branching session: a caller constructs an Either or an Except and   *)
(* chains map / flatMap on it.                                             *)
(***************************************************************************)
TryEffects == {Thunk("now"), Thunk("retErr"), Thunk("retNull"),
               Thunk("throwErr"), Thunk("throwStr")}
ErrorHandlers == {NoFn, Fn("mkErr"), Fn("id"), Fn("boom")}

idleRun == <<outs, twin, twinLog, twinOuts>>
idleLaw == <<lhs, rhs>>
idleAsync == <<procs, isolated>>

InitCommon ==
    /\ cur = None
    /\ log = <<>>
    /\ iters = <<>>
    /\ lastOp = [op |-> "init"]
    /\ steps = 0
    /\ skipped = 0
    /\ outs = <<>>
    /\ twin = None
    /\ twinLog = <<>>
    /\ twinOuts = <<>>
    /\ lhs = None
    /\ rhs = None
    /\ procs = <<>>
    /\ isolated = None

\* a constructor call starts a new chain: r is what the call gave back
Constructed(op, r) ==
    /\ cur' = IF r.ok THEN r.val ELSE None
    /\ log' = r.w.log
    /\ iters' = r.w.iters
    /\ lastOp' = op @@ [ok |-> r.ok, val |-> r.val]
    /\ steps' = 0
    /\ skipped' = 0

\* a combinator call on the held container
Chained(op, r) ==
    /\ cur' = IF r.ok THEN r.val ELSE cur
    /\ log' = r.w.log
    /\ iters' = r.w.iters
    /\ lastOp' = op @@ [ok |-> r.ok, val |-> r.val]
    /\ steps' = steps + 1
    /\ skipped' = IF IsBranching(cur) /\ IsFailure(cur) THEN skipped + 1 ELSE skipped

Fresh == World(<<>>, <<>>)
Here == World(log, iters)

CallEitherLeft ==
    \E v \in Values :
        /\ cur = None
        /\ Constructed([op |-> "left", a |-> v], Ret(EitherLeft(v), Fresh))
        /\ UNCHANGED <<idleRun, idleLaw, idleAsync>>

CallEitherRight ==
    \E v \in Values :
        /\ cur = None
        /\ Constructed([op |-> "right", a |-> v], Ret(EitherRight(v), Fresh))
        /\ UNCHANGED <<idleRun, idleLaw, idleAsync>>

CallEitherOf ==
    \E v \in Values :
        /\ cur = None
        /\ Constructed([op |-> "of", a |-> v], Ret(EitherOf(v), Fresh))
        /\ UNCHANGED <<idleRun, idleLaw, idleAsync>>

CallEitherFromNullable ==
    \E v \in Values, onNull \in {Thunk("retErr"), Thunk("throwStr")} :
        /\ cur = None
        /\ Constructed([op |-> "fromNullable", a |-> v, b |-> onNull],
                       EitherFromNullable(v, onNull, Fresh))
        /\ UNCHANGED <<idleRun, idleLaw, idleAsync>>

CallEitherTryCatch ==
    \E effect \in TryEffects, onError \in ErrorHandlers :
        /\ cur = None
        /\ Constructed([op |-> "tryCatch", a |-> effect, b |-> onError],
                       EitherTryCatch(effect, onError, Fresh))
        /\ UNCHANGED <<idleRun, idleLaw, idleAsync>>

CallExceptFailed ==
    \E e \in Errors :
        /\ cur = None
        /\ Constructed([op |-> "failed", a |-> e], Ret(ExceptFailed(e), Fresh))
        /\ UNCHANGED <<idleRun, idleLaw, idleAsync>>

CallExceptOk ==
    \E v \in Values :
        /\ cur = None
        /\ Constructed([op |-> "ok", a |-> v], Ret(ExceptOk(v), Fresh))
        /\ UNCHANGED <<idleRun, idleLaw, idleAsync>>

CallExceptOf ==
    \E v \in Values :
        /\ cur = None
        /\ Constructed([op |-> "of", a |-> v], Ret(ExceptOf(v), Fresh))
        /\ UNCHANGED <<idleRun, idleLaw, idleAsync>>

CallExceptFromNullable ==
    \E v \in Values, onNull \in {Thunk("retErr"), Thunk("throwStr")} :
        /\ cur = None
        /\ Constructed([op |-> "fromNullable", a |-> v, b |-> onNull],
                       ExceptFromNullable(v, onNull, Fresh))
        /\ UNCHANGED <<idleRun, idleLaw, idleAsync>>

CallExceptTryCatch ==
    \E effect \in TryEffects, onError \in ErrorHandlers :
        /\ cur = None
        /\ Constructed([op |-> "tryCatch", a |-> effect, b |-> onError],
                       ExceptTryCatch(effect, onError, Fresh))
        /\ UNCHANGED <<idleRun, idleLaw, idleAsync>>

CallMap ==
    \E f \in PureFns :
        /\ IsBranching(cur)
        /\ steps < MaxSteps
        /\ Chained([op |-> "map", a |-> f], Map(cur, f, Here))
        /\ UNCHANGED <<idleRun, idleLaw, idleAsync>>

CallFlatMap ==
    \E f \in KleisliFns(cur.fam) :
        /\ IsBranching(cur)
        /\ steps < MaxSteps
        /\ Chained([op |-> "flatMap", a |-> f], FlatMap(cur, f, Here))
        /\ UNCHANGED <<idleRun, idleLaw, idleAsync>>

NextBranch ==
    \/ CallEitherLeft
    \/ CallEitherRight
    \/ CallEitherOf
    \/ CallEitherFromNullable
    \/ CallEitherTryCatch
    \/ CallExceptFailed
    \/ CallExceptOk
    \/ CallExceptOf
    \/ CallExceptFromNullable
    \/ CallExceptTryCatch
    \/ CallMap
    \/ CallFlatMap

SpecBranch == InitCommon /\ [][NextBranch]_vars

(***************************************************************************)
(* AsyncIO (src/monads/AsyncIO.ts).  A run() call is a pending computation:*)
(* the promise chain that effect() set up.  st is the state of the promise *)
(* the chain currently hangs on (awaiting the completion of a started      *)
(* thunk, resolved, or rejected); stack holds the reactions registered     *)
(* with then(), innermost first; trace is what this run has done so far.   *)
(* The start and the completion of a thunk are two events.                 *)
(***************************************************************************)
StartEvent(e) == [ev |-> "start", f |-> e, arg |-> e.msg]
EndEvent(e) == [ev |-> "end", f |-> e, arg |-> ThunkValue(e)]
Frame(kind, f) == [fr |-> kind, f |-> f]
Pending(st, wait, val, stack, trace) ==
    [st |-> st, wait |-> wait, val |-> val, stack |-> stack, trace |-> trace,
     overlap |-> FALSE]

\* what a step of a run gives back: the run's new state and the iterator heap
Stepped(p, h) == [p |-> p, iters |-> h]

RECURSIVE AsyncEffect(_, _, _, _)

\* a flatMap closure that calls f, and starts its computation, without awaiting
\* this.effect()
AsyncFlatMapEffectEager(t, stack, trace, h) ==
    LET first == AsyncEffect(t.m, <<>>, trace, h)
        k == Apply(t.f, Undef, World(first.p.trace, first.iters))
    IN  AsyncEffect(k.val, stack, k.w.log, k.w.iters)

\* the closure of AsyncIO.flatMap: () => this.effect().then((a) => f(a).run())
AsyncFlatMapEffect(t, stack, trace, h) ==
    AsyncEffect(t.m, <<Frame("flatMap", t.f)>> \o stack, trace, h)

\* this.effect(), for the closure of each constructor and combinator: the
\* synchronous part of run()
AsyncEffect(t, stack, trace, h) ==
    CASE t.op = "of" ->
            \* () => Promise.resolve(value)
            Stepped(Pending("resolved", NoFn, t.v, stack, trace), h)
      [] t.op = "from" ->
            \* effect(): the thunk starts its asynchronous work
            Stepped(Pending("await", t.e, Undef, stack,
                            Append(trace, StartEvent(t.e))), h)
      [] t.op = "map" ->
            \* this.effect().then(f)
            AsyncEffect(t.m, <<Frame("map", t.f)>> \o stack, trace, h)
      [] t.op = "flatMap" -> AsyncFlatMapEffect(t, stack, trace, h)
      [] t.op = "tap" ->
            \* val = this.effect(); val.then(a => sideEffect(a)); return val
            AsyncEffect(t.m, <<Frame("tap", t.f)>> \o stack, trace, h)

\* AsyncIO.run()
AsyncIORun(t, h) == AsyncEffect(t, <<>>, <<>>, h)

\* the completion of the thunk a run awaits
AsyncCompleted(p, h) ==
    Stepped([p EXCEPT !.st = IF ThunkThrows(p.wait) THEN "rejected" ELSE "resolved",
                      !.val = ThunkValue(p.wait),
                      !.wait = NoFn,
                      !.trace = Append(@, EndEvent(p.wait))], h)

\* one reaction job: the innermost then() callback runs on the settled value
AsyncReaction(p, h) ==
    LET fr == Head(p.stack)
        rest == Tail(p.stack)
        r == Apply(fr.f, p.val, World(p.trace, h))
        q == [p EXCEPT !.stack = rest, !.trace = r.w.log]
        inner == AsyncEffect(r.val, rest, r.w.log, r.w.iters)
    IN  IF p.st = "rejected"
        THEN \* a then(f) without a rejection handler passes the rejection on
             Stepped([p EXCEPT !.stack = rest], h)
        ELSE CASE fr.fr = "map" ->
                    Stepped([q EXCEPT !.st = IF r.ok THEN "resolved" ELSE "rejected",
                                      !.val = r.val], r.w.iters)
               [] fr.fr = "flatMap" ->
                    IF r.ok
                    THEN Stepped([inner.p EXCEPT !.overlap = p.overlap], inner.iters)
                    ELSE Stepped([q EXCEPT !.st = "rejected", !.val = r.val],
                                 r.w.iters)
               [] fr.fr = "tap" ->
                    \* the promise val.then(...) returns is dropped: the run
                    \* goes on with val whatever sideEffect does
                    Stepped(q, r.w.iters)

\* the promise run() returned settles
AsyncSettled(p, h) ==
    Stepped([p EXCEPT !.st = IF p.st = "resolved" THEN "done" ELSE "failed"], h)

IsSettled(p) == p.st \in {"done", "failed"}

\* the one step a run can take next
AsyncStep(p, h) ==
    IF p.st = "await" THEN AsyncCompleted(p, h)
    ELSE IF p.stack # <<>> THEN AsyncReaction(p, h)
    ELSE AsyncSettled(p, h)

\* a run left alone until the promise it returned settles
RECURSIVE AsyncAwait(_, _)
AsyncAwait(p, h) ==
    IF IsSettled(p) THEN Stepped(p, h)
    ELSE LET n == AsyncStep(p, h) IN AsyncAwait(n.p, n.iters)

(***************************************************************************)
(* Claims about the branching session.                                     *)
(***************************************************************************)
EffectCount(l, e) == Cardinality({i \in 1..Len(l) : l[i].ev = "effect" /\ l[i].f = e})

\* C1: a map or flatMap call on an Either in the Left branch or an Except in
\* the failure branch returns the same container (same branch, same payload)
\* and invokes no function; so once a chain reaches a failure every later
\* step leaves container and call log as they are.
C1_ShortCircuit ==
    [][(IsBranching(cur) /\ IsFailure(cur) /\ steps' = steps + 1)
          => (cur' = cur /\ log' = log)]_vars

\* a chain whose first step (flatMap) produced a Left and whose second step
\* (map) was then skipped: only the first step's function was called
C1_Witness ==
    /\ steps = 2
    /\ skipped = 1
    /\ cur = EitherLeft(Str(0))
    /\ lastOp.op = "map"
    /\ Len(log) = 1

\* C7: tryCatch(effect, onError?) on Either and Except runs effect exactly
\* once; a fault thrown by effect gives the failure branch carrying
\* onError(fault), or the raw fault without onError; a normal return gives the
\* success branch carrying the returned value; no fault of effect escapes.
C7_TryCatchBranches ==
    lastOp.op = "tryCatch" =>
        LET effect == lastOp.a
            onError == lastOp.b
            fault == ThunkValue(effect)
        IN  /\ EffectCount(log, effect) = 1
            /\ (~lastOp.ok) => (ThunkThrows(effect) /\ onError = Fn("boom"))
            /\ (lastOp.ok /\ ThunkThrows(effect)) =>
                  /\ IsFailure(cur)
                  /\ cur.value = IF onError = NoFn THEN fault
                                 ELSE PureResult(onError.fn, fault)
            /\ (~ThunkThrows(effect)) =>
                  /\ lastOp.ok
                  /\ ~IsFailure(cur)
                  /\ cur.value = ThunkValue(effect)

(***************************************************************************)
(* The run session: a caller builds an IO or a State (with the             *)
(* constructors, the combinators, or Do.run) and then calls run() on it,   *)
(* possibly several times.  Beside a Do-built container the session keeps  *)
(* the same block written by hand as a flatMap chain, built and run in a   *)
(* world of its own.                                                       *)
(***************************************************************************)
IOOf(v, w) == Ret(LazyOf("IO", v), w)
IOFrom(e, w) == Ret(LazyFrom("IO", e), w)

SeqsUpTo(S, n) == UNION {[1..k -> S] : k \in 0..n}

\* containers a producer may yield
Yieldable(fam) ==
    CASE fam = "IO" -> {LazyOf("IO", Num(1)), LazyFrom("IO", Thunk("read")),
                        LazyFrom("IO", PutStrLn(Num(0)))}
      [] fam = "State" -> {StateGet, StatePut(Num(1)), StateModify(Fn("inc"))}
      [] fam = "Either" -> {EitherRight(Num(1)), EitherRight(Num(2 % (MaxNum + 1))),
                            EitherLeft(Str(0))}
      [] fam = "Except" -> {ExceptOk(Num(1)), ExceptOk(ErrObj(0)),
                            ExceptFailed(ErrObj(1))}
      [] fam = "AsyncIO" -> {LazyOf("AsyncIO", Num(1)),
                             LazyFrom("AsyncIO", Thunk("read"))}
Gens(fam) ==
    {Gen(fam, ys) : ys \in SeqsUpTo(Yieldable(fam),
                                    IF fam = "AsyncIO" THEN MaxAsyncYields
                                    ELSE MaxYields)}

idleBranch == <<skipped>>

\* a constructor call of the run session
Built(op, r, t) ==
    /\ Constructed(op, r)
    /\ outs' = <<>>
    /\ twin' = IF t.ok THEN t.val ELSE None
    /\ twinLog' = t.w.log
    /\ twinOuts' = <<>>
NoTwin == Ret(None, Fresh)

\* a combinator call of the run session, made on the hand-written chain too
Extended(op, r, t) ==
    /\ Chained(op, r)
    /\ twin' = IF t.ok THEN t.val ELSE twin
    /\ twinLog' = t.w.log
    /\ UNCHANGED <<outs, twinOuts>>
TwinHere == World(twinLog, <<>>)

\* the run() result kept for comparison: the initial state given, whether
\* run returned or threw, and the value
Out(s0, r) == [s0 |-> s0, ok |-> r.ok, val |-> r.val]

\* a run() call of the session
Ran(op, r, s0, t) ==
    /\ log' = r.w.log
    /\ iters' = r.w.iters
    /\ lastOp' = op @@ [ok |-> r.ok, val |-> r.val]
    /\ outs' = Append(outs, Out(s0, r))
    /\ twinLog' = t.w.log
    /\ twinOuts' = IF twin = None THEN twinOuts ELSE Append(twinOuts, Out(s0, t))
    /\ UNCHANGED <<cur, steps, skipped, twin>>

CallIOOf ==
    \E v \in Values :
        /\ cur = None
        /\ Built([op |-> "of", a |-> v], IOOf(v, Fresh), NoTwin)
        /\ UNCHANGED <<idleLaw, idleAsync>>

CallIOFrom ==
    \E e \in {Now, Thunk("read")} :
        /\ cur = None
        /\ Built([op |-> "from", a |-> e], IOFrom(e, Fresh), NoTwin)
        /\ UNCHANGED <<idleLaw, idleAsync>>

CallStateOf ==
    \E v \in Nums :
        /\ cur = None
        /\ Built([op |-> "of", a |-> v], Ret(StateOf(v), Fresh), NoTwin)
        /\ UNCHANGED <<idleLaw, idleAsync>>

CallStateGet ==
    /\ cur = None
    /\ Built([op |-> "get"], Ret(StateGet, Fresh), NoTwin)
    /\ UNCHANGED <<idleLaw, idleAsync>>

CallStatePut ==
    \E n \in Nums :
        /\ cur = None
        /\ Built([op |-> "put", a |-> n], Ret(StatePut(n), Fresh), NoTwin)
        /\ UNCHANGED <<idleLaw, idleAsync>>

CallStateModify ==
    \E f \in {Fn("inc"), Fn("id")} :
        /\ cur = None
        /\ Built([op |-> "modify", a |-> f], Ret(StateModify(f), Fresh), NoTwin)
        /\ UNCHANGED <<idleLaw, idleAsync>>

CallStateGets ==
    \E f \in {Fn("inc"), Fn("mkNull")} :
        /\ cur = None
        /\ Built([op |-> "gets", a |-> f], Ret(StateGets(f), Fresh), NoTwin)
        /\ UNCHANGED <<idleLaw, idleAsync>>

CallDoRun ==
    \E of \in {"IO", "State", "Either", "Except"} :
        \E g \in Gens(of) :
            /\ cur = None
            /\ Built([op |-> "Do.run", a |-> of, b |-> g],
                     DoRun(of, g, Fresh), ManualChain(of, g, Fresh))
            /\ UNCHANGED <<idleLaw, idleAsync>>

CallRunMap ==
    \E f \in PureFns :
        /\ cur.fam \in {"IO", "State"}
        /\ steps < MaxSteps
        /\ outs = <<>>
        /\ Extended([op |-> "map", a |-> f], Map(cur, f, Here),
                    IF twin = None THEN NoTwin ELSE Map(twin, f, TwinHere))
        /\ UNCHANGED <<idleLaw, idleAsync>>

CallRunFlatMap ==
    \E f \in KleisliFns(cur.fam) :
        /\ cur.fam \in {"IO", "State"}
        /\ steps < MaxSteps
        /\ outs = <<>>
        /\ Extended([op |-> "flatMap", a |-> f], FlatMap(cur, f, Here),
                    IF twin = None THEN NoTwin ELSE FlatMap(twin, f, TwinHere))
        /\ UNCHANGED <<idleLaw, idleAsync>>

CallIOTap ==
    \E f \in {Fn("id"), Fn("mkNull")} :
        /\ cur.fam = "IO"
        /\ steps < MaxSteps
        /\ outs = <<>>
        /\ Extended([op |-> "tap", a |-> f], IOTap(cur, f, Here),
                    IF twin = None THEN NoTwin ELSE IOTap(twin, f, TwinHere))
        /\ UNCHANGED <<idleLaw, idleAsync>>

CallIORun ==
    /\ cur.fam = "IO"
    /\ Len(outs) < MaxRuns
    /\ Ran([op |-> "run"], IORun(cur, Here), Undef,
           IF twin = None THEN NoTwin ELSE IORun(twin, TwinHere))
    /\ UNCHANGED <<idleLaw, idleAsync>>

CallStateRun ==
    \E s0 \in Nums :
        /\ cur.fam = "State"
        /\ Len(outs) < MaxRuns
        /\ Ran([op |-> "run", a |-> s0], StateRun(cur, s0, Here), s0,
               IF twin = None THEN NoTwin ELSE StateRun(twin, s0, TwinHere))
        /\ UNCHANGED <<idleLaw, idleAsync>>

NextRun ==
    \/ CallIOOf
    \/ CallIOFrom
    \/ CallStateOf
    \/ CallStateGet
    \/ CallStatePut
    \/ CallStateModify
    \/ CallStateGets
    \/ CallDoRun
    \/ CallRunMap
    \/ CallRunFlatMap
    \/ CallIOTap
    \/ CallIORun
    \/ CallStateRun

SpecRun == InitCommon /\ [][NextRun]_vars

(***************************************************************************)
(* Claims about the run session.                                           *)
(***************************************************************************)
\* what a run makes observable: the effects executed and the caller functions
\* invoked, in order (resumptions of a producer are not effects of the block)
Effects(l) == SelectSeq(l, LAMBDA e : e.ev \in {"effect", "call"})

\* C2: the container Do.run(of, gen) returns is observationally equal to the
\* hand-written chain m1.flatMap(v1 => ... mn.flatMap(vn => of(r))): the same
\* branch and payload for Either and Except, the same results and the same
\* sequence of effects from every run() for IO, the same (value, finalState)
\* from every run(s) for State.
C2_DoEqualsManualChain ==
    twin # None =>
        /\ IsBranching(cur) => cur = twin
        /\ outs = twinOuts
        /\ Effects(log) = Effects(twinLog)

\* C3: run(s0) called any number of times on one State value with the same
\* s0 gives the same (value, finalState) pair each time.
C3_StateRunDeterministic ==
    cur.fam = "State" =>
        \A i, j \in 1..Len(outs) :
            outs[i].s0 = outs[j].s0 => outs[i] = outs[j]

\* the thunk at the root of a chain built from from(e)
RECURSIVE RootThunk(_)
RootThunk(t) ==
    CASE t.op = "from" -> t.e
      [] t.op \in {"map", "flatMap", "tap"} -> RootThunk(t.m)
      [] OTHER -> NoFn

\* C8: building an IO with of / from / map / flatMap / tap executes nothing
\* (the log is empty after a constructor and unchanged by a combinator), and
\* on a chain built from from(e), k calls of run() have executed e exactly k
\* times.
C8_IODefersEffects ==
    /\ [][(cur'.fam = "IO" /\ lastOp'.op \in {"of", "from", "map", "flatMap", "tap"})
            => (log' = IF lastOp'.op \in {"of", "from"} THEN <<>> ELSE log)]_vars
    /\ [](cur.fam = "IO" /\ twin = None /\ RootThunk(cur) = Now
            => EffectCount(log, Now) = Len(outs))

\* now.map(f).flatMap(putStrLn), run twice: now was read twice and two lines
\* were printed
C8_Witness ==
    /\ cur = LazyFlatMap(LazyMap(LazyFrom("IO", Now), Fn("inc")), KFn("kPut", "IO"))
    /\ Len(outs) = 2
    /\ EffectCount(log, Now) = 2
    /\ EffectCount(log, PutStrLn(Num(2 % (MaxNum + 1)))) = 2

(***************************************************************************)
(* The asynchronous session: a caller builds an AsyncIO, calls run() on it *)
(* up to MaxAsyncRuns times, and the pending computations advance one      *)
(* event at a time, in any order.                                          *)
(***************************************************************************)
Outcome(p) == [st |-> p.st, val |-> p.val]

\* how a single run() of t settles when nothing else runs
IsolatedOutcome(t, h) ==
    LET started == AsyncIORun(t, h)
    IN  Outcome(AsyncAwait(started.p, started.iters).p)

AsyncBuilt(op, r) ==
    /\ Constructed(op, r)
    /\ procs' = <<>>
    /\ isolated' = IsolatedOutcome(r.val, r.w.iters)

AsyncExtended(op, r) ==
    /\ Chained(op, r)
    /\ procs' = <<>>
    /\ isolated' = IsolatedOutcome(r.val, r.w.iters)

AsyncAdvanced(op, i, n) ==
    /\ procs' = [procs EXCEPT ![i] = n.p]
    /\ iters' = n.iters
    /\ lastOp' = [op |-> op, a |-> i]
    /\ UNCHANGED <<cur, log, steps, skipped, isolated, idleRun, idleLaw>>

CallAsyncIOOf ==
    \E v \in Nums :
        /\ cur = None
        /\ AsyncBuilt([op |-> "of", a |-> v], Ret(LazyOf("AsyncIO", v), Fresh))
        /\ UNCHANGED <<idleRun, idleLaw>>

CallAsyncIOFrom ==
    \E e \in {Now, Thunk("read")} :
        /\ cur = None
        /\ AsyncBuilt([op |-> "from", a |-> e], Ret(LazyFrom("AsyncIO", e), Fresh))
        /\ UNCHANGED <<idleRun, idleLaw>>

CallAsyncDoRun ==
    \E g \in Gens("AsyncIO") :
        /\ cur = None
        /\ AsyncBuilt([op |-> "Do.run", a |-> "AsyncIO", b |-> g],
                      DoRun("AsyncIO", g, Fresh))
        /\ UNCHANGED <<idleRun, idleLaw>>

CallAsyncIOMap ==
    \E f \in {Fn("inc"), Fn("mkErr")} :
        /\ cur.fam = "AsyncIO"
        /\ steps < MaxAsyncSteps
        /\ procs = <<>>
        /\ AsyncExtended([op |-> "map", a |-> f], AsyncIOMap(cur, f, Here))
        /\ UNCHANGED <<idleRun, idleLaw>>

CallAsyncIOFlatMap ==
    \E f \in KleisliFns("AsyncIO") :
        /\ cur.fam = "AsyncIO"
        /\ steps < MaxAsyncSteps
        /\ procs = <<>>
        /\ AsyncExtended([op |-> "flatMap", a |-> f], AsyncIOFlatMap(cur, f, Here))
        /\ UNCHANGED <<idleRun, idleLaw>>

CallAsyncIOTap ==
    \E f \in {Fn("id")} :
        /\ cur.fam = "AsyncIO"
        /\ steps < MaxAsyncSteps
        /\ procs = <<>>
        /\ AsyncExtended([op |-> "tap", a |-> f], AsyncIOTap(cur, f, Here))
        /\ UNCHANGED <<idleRun, idleLaw>>

\* run(): the synchronous part sets up the chain; a run started while another
\* is pending overlaps it
CallAsyncIORun ==
    /\ cur.fam = "AsyncIO"
    /\ Len(procs) < MaxAsyncRuns
    /\ LET started == AsyncIORun(cur, iters)
           busy == \E i \in DOMAIN procs : ~IsSettled(procs[i])
       IN  /\ procs' = Append([i \in DOMAIN procs |->
                                  IF IsSettled(procs[i]) THEN procs[i]
                                  ELSE [procs[i] EXCEPT !.overlap = TRUE]],
                              [started.p EXCEPT !.overlap = busy])
           /\ iters' = started.iters
    /\ lastOp' = [op |-> "run"]
    /\ UNCHANGED <<cur, log, steps, skipped, isolated, idleRun, idleLaw>>

\* the thunk a run awaits completes
ThunkCompletes ==
    \E i \in DOMAIN procs :
        /\ procs[i].st = "await"
        /\ AsyncAdvanced("complete", i, AsyncCompleted(procs[i], iters))

\* a then() callback of a run is called
ReactionRuns ==
    \E i \in DOMAIN procs :
        /\ procs[i].st \in {"resolved", "rejected"}
        /\ procs[i].stack # <<>>
        /\ AsyncAdvanced("reaction", i, AsyncReaction(procs[i], iters))

\* the promise run() returned settles
RunSettles ==
    \E i \in DOMAIN procs :
        /\ procs[i].st \in {"resolved", "rejected"}
        /\ procs[i].stack = <<>>
        /\ AsyncAdvanced("settle", i, AsyncSettled(procs[i], iters))

NextAsync ==
    \/ CallAsyncIOOf
    \/ CallAsyncIOFrom
    \/ CallAsyncDoRun
    \/ CallAsyncIOMap
    \/ CallAsyncIOFlatMap
    \/ CallAsyncIOTap
    \/ CallAsyncIORun
    \/ ThunkCompletes
    \/ ReactionRuns
    \/ RunSettles

SpecAsync == InitCommon /\ [][NextAsync]_vars

(***************************************************************************)
(* Claims about the asynchronous session.                                  *)
(***************************************************************************)
\* thunks of a trace's first n events that were started and have not completed
InFlight(tr, n) ==
    Cardinality({i \in 1..n : tr[i].ev = "start"})
        - Cardinality({i \in 1..n : tr[i].ev = "end"})

\* C9: within one run of an AsyncIO chain no step begins before the step
\* before it has resolved: a function handed to map / flatMap / tap is called,
\* and a thunk is started, only when no thunk of the run is in flight; the
\* function called right after a thunk completes receives the value it
\* resolved with; and the run settles with the value of the chain's last step
\* (the value the same chain gives when evaluated synchronously).
C9_AsyncOrder ==
    \A i \in DOMAIN procs :
        LET tr == procs[i].trace
        IN  /\ \A n \in 1..Len(tr) :
                  /\ tr[n].ev \in {"start", "call"} => InFlight(tr, n - 1) = 0
                  /\ (n > 1 /\ tr[n].ev = "call" /\ tr[n - 1].ev = "end")
                        => tr[n].arg = tr[n - 1].arg
            /\ (IsSettled(procs[i]) /\ iters = <<>>)
                  => procs[i].val = IORun(cur, Fresh).val

\* from(now).flatMap(putStrLn) has run to its end: now was started and
\* completed, then putStrLn was called with the instant, started and completed
C9_Witness ==
    /\ cur = LazyFlatMap(LazyFrom("AsyncIO", Now), KFn("kPut", "AsyncIO"))
    /\ Len(procs) >= 1
    /\ procs[1].st = "done"
    /\ Len(procs[1].trace) = 5
    /\ procs[1].trace[3] = CallEvent(KFn("kPut", "AsyncIO"), Num(1))
    /\ procs[1].trace[4].ev = "start"

\* C10: two run() calls on one AsyncIO value whose pending computations
\* overlap each settle as a single run() left alone would, whatever the
\* order of their completions.
C10_ConcurrentRunsIndependent ==
    \A i \in DOMAIN procs :
        (IsSettled(procs[i]) /\ procs[i].overlap) => Outcome(procs[i]) = isolated

(***************************************************************************)
(* The laws: each action draws the inputs of one law, builds both sides    *)
(* from the same fresh world, runs each once and keeps what it observed:   *)
(* whether the run returned, its value, and the events it caused.          *)
(***************************************************************************)
Families == {"Either", "Except", "IO", "AsyncIO", "State", "StateT"}
Effectful == {"IO", "AsyncIO", "State", "StateT"}

\* containers the laws are tried on
SampleM(fam) ==
    CASE fam = "Either" -> {EitherLeft(Str(0)), EitherRight(Num(1)),
                            EitherRight(ErrObj(0)), EitherRight(Null)}
      [] fam = "Except" -> {ExceptFailed(ErrObj(1)), ExceptOk(Num(1)),
                            ExceptOk(Null), ExceptOk(ErrObj(0))}
      [] fam \in {"IO", "AsyncIO"} ->
            {LazyOf(fam, Num(1)), LazyFrom(fam, Now),
             LazyFlatMap(LazyFrom(fam, Now), KFn("kPut", fam))}
      [] fam = "State" -> {StateGet, StatePut(Num(1)), StateModify(Fn("inc")),
                           StateOf(Num(2 % (MaxNum + 1))), StateGets(Fn("inc"))}
      [] fam = "StateT" ->
            {StateTOf(Num(1), "Either"), StateTGet("Either"),
             StateTPut(Num(1), "Either"), StateTModify(Fn("inc"), "Either"),
             StateTLift(EitherLeft(Str(0)), "Either"),
             StateTLift(EitherRight(Num(1)), "Either")}

\* initial states a State / StateT is run from
InitialStates(fam) == IF fam \in {"State", "StateT"} THEN Nums ELSE {Num(0)}

Obs(ok, val, l) ==
    [ok |-> ok, val |-> val, log |-> SelectSeq(l, LAMBDA e : e.ev # "next")]

ObsResult(x) == Obs(x.ok, x.val, x.w.log)
ObsPromise(p) == Obs(p.st = "done", p.val, p.trace)
Awaited(started) == AsyncAwait(started.p, started.iters).p

\* run the container an expression built, once, and observe
Observe(r, s0) ==
    IF ~r.ok THEN ObsResult(r)
    ELSE CASE r.val.fam \in {"Either", "Except"} -> ObsResult(r)
           [] r.val.fam = "IO" -> ObsResult(IORun(r.val, r.w))
           [] r.val.fam = "AsyncIO" ->
                ObsPromise(Awaited(AsyncEffect(r.val, <<>>, r.w.log, r.w.iters)))
           [] r.val.fam = "State" -> ObsResult(StateRun(r.val, s0, r.w))
           [] r.val.fam = "StateT" -> ObsResult(StateTRun(r.val, s0, r.w))

\* the expressions a law is stated with
ELit(m) == [e |-> "lit", m |-> m]
EOf(fam, v) == [e |-> "of", fam |-> fam, v |-> v]
ECall(f, v) == [e |-> "call", f |-> f, v |-> v]
EMap(of, f) == [e |-> "map", of |-> of, f |-> f]
EFlatMap(of, f) == [e |-> "flatMap", of |-> of, f |-> f]
ETap(of, f) == [e |-> "tap", of |-> of, f |-> f]
EThunk(t) == [e |-> "thunk", t |-> t]

RECURSIVE Eval(_, _)
\* evaluate an expression, left to right, in world w
Eval(x, w) ==
    CASE x.e = "lit" -> Ret(x.m, w)
      [] x.e = "of" -> Ret(Of(x.fam, x.v), w)
      [] x.e = "call" -> Apply(x.f, x.v, w)
      [] x.e = "thunk" -> RunThunk(x.t, w)
      [] x.e \in {"map", "flatMap", "tap"} ->
            LET r == Eval(x.of, w)
            IN  IF ~r.ok THEN r
                ELSE IF x.e = "map" THEN Map(r.val, x.f, r.w)
                ELSE IF x.e = "flatMap" THEN FlatMap(r.val, x.f, r.w)
                ELSE IF r.val.fam = "IO" THEN IOTap(r.val, x.f, r.w)
                ELSE AsyncIOTap(r.val, x.f, r.w)

NoLawYet == lastOp = [op |-> "init"]

\* both sides are evaluated from the same fresh world and run once from s0
Sides(seen) ==
    /\ lhs' = seen[1]
    /\ rhs' = seen[2]

Law(op, l, r) ==
    /\ lastOp' = op
    /\ Sides([i \in 1..2 |-> Observe(Eval(<<l, r>>[i], Fresh), op.s0)])

idleLawSession == <<cur, log, iters, steps, skipped, idleRun, idleAsync>>

\* of(v).flatMap(f)  against  f(v)
LawLeftIdentity ==
    /\ NoLawYet
    /\ \E fam \in Families :
           \E v \in Values, f \in KleisliFns(fam), s0 \in InitialStates(fam) :
               Law([op |-> "leftIdentity", fam |-> fam, v |-> v, f |-> f, s0 |-> s0],
                   EFlatMap(EOf(fam, v), f),
                   ECall(f, v))
    /\ UNCHANGED idleLawSession

\* m.map(x => x)  against  m
LawFunctorIdentity ==
    /\ NoLawYet
    /\ \E fam \in Families :
           \E m \in SampleM(fam), s0 \in InitialStates(fam) :
               Law([op |-> "functorIdentity", fam |-> fam, m |-> m, s0 |-> s0],
                   EMap(ELit(m), Fn("id")),
                   ELit(m))
    /\ UNCHANGED idleLawSession

\* m.map(f).map(g)  against  m.map(x => g(f(x)))
LawFunctorComposition ==
    /\ NoLawYet
    /\ \E fam \in Families :
           \E m \in SampleM(fam), f \in PureFns, g \in PureFns,
              s0 \in InitialStates(fam) :
               Law([op |-> "functorComposition", fam |-> fam, m |-> m, f |-> f,
                    g |-> g, s0 |-> s0],
                   EMap(EMap(ELit(m), f), g),
                   EMap(ELit(m), Comp(f, g)))
    /\ UNCHANGED idleLawSession

\* m.flatMap(f).flatMap(g)  against  m.flatMap(x => f(x).flatMap(g))
LawAssociativity ==
    /\ NoLawYet
    /\ \E fam \in Effectful :
           \E m \in SampleM(fam), f \in KleisliFns(fam), g \in KleisliFns(fam),
              s0 \in InitialStates(fam) :
               Law([op |-> "associativity", fam |-> fam, m |-> m, f |-> f,
                    g |-> g, s0 |-> s0],
                   EFlatMap(EFlatMap(ELit(m), f), g),
                   EFlatMap(ELit(m), BindK(f, g)))
    /\ UNCHANGED idleLawSession

\* the thunks that raise a fault when run
FaultyThunks == {Thunk("throwErr"), Thunk("throwStr")}

\* the step of a chain that raises the fault: the wrapped computation itself,
\* or a function handed to map, flatMap or tap on m
FaultyStep(fam, m, at, e) ==
    CASE at = "effect" -> ELit(LazyFrom(fam, e))
      [] at = "map" -> EMap(ELit(m), Fn("boom"))
      [] at = "flatMap" -> EFlatMap(ELit(m), Fn("boom"))
      [] at = "tap" -> ETap(ELit(m), Fn("boom"))

\* the step chained after it, if any
StepAfter(x, after, fam) ==
    CASE after = "none" -> x
      [] after = "map" -> EMap(x, Fn("inc"))
      [] after = "flatMap" -> EFlatMap(x, KFn("kOfInc", fam))
      [] after = "tap" -> ETap(x, Fn("id"))

\* the same fault raised by calling the thunk or the function directly
FaultRaised(at, e) ==
    IF at = "effect" THEN EThunk(e) ELSE ECall(Fn("boom"), Undef)

\* run() of a chain one of whose steps raises a fault  against  the fault
RunFaulty ==
    /\ NoLawYet
    /\ \E fam \in {"IO", "AsyncIO"} :
           \E m \in SampleM(fam), at \in {"effect", "map", "flatMap", "tap"},
              after \in {"none", "map", "flatMap", "tap"}, e \in FaultyThunks :
               Law([op |-> "runFaulty", fam |-> fam, m |-> m, at |-> at,
                    after |-> after, e |-> e, s0 |-> Num(0)],
                   StepAfter(FaultyStep(fam, m, at, e), after, fam),
                   FaultRaised(at, e))
    /\ UNCHANGED idleLawSession

\* what State.flatMap is documented to do, one step at a time: m's transition
\* runs on s0 and gives (a, s1), f is called with a, f(a)'s transition runs on s1
ThenRunState(k, s1) == IF k.ok THEN StateRun(k.val, s1, k.w) ELSE k
ThenCall(r, f) ==
    IF r.ok THEN ThenRunState(Apply(f, r.val.a, r.w), r.val.s) ELSE r
StateStepwise(m, f, s0, w) == ThenCall(StateRun(m, s0, w), f)

\* the continuations State chains are tried with
StateSteps ==
    KleisliFns("State") \cup {Konst(StateModify(Fn("inc"))), Konst(StateGet)}

\* m.flatMap(f).run(s0)  against  the two transitions run one after the other
LawStateBind ==
    /\ NoLawYet
    /\ \E m \in SampleM("State"), f \in StateSteps, s0 \in Nums :
           /\ lastOp' = [op |-> "stateBind", fam |-> "State", m |-> m, f |-> f,
                         s0 |-> s0]
           /\ Sides(<<Observe(Eval(EFlatMap(ELit(m), f), Fresh), s0),
                      ObsResult(StateStepwise(m, f, s0, Fresh))>>)
    /\ UNCHANGED idleLawSession

RECURSIVE Increments(_)
\* increment.flatMap(() => increment) ... : n increments, chained to the left
Increments(n) ==
    IF n = 1 THEN ELit(StateModify(Fn("inc")))
    ELSE EFlatMap(Increments(n - 1), Konst(StateModify(Fn("inc"))))

\* the counter program of the test: n increments, then getCount
CounterProgram(n) ==
    IF n = 0 THEN ELit(StateGet) ELSE EFlatMap(Increments(n), Konst(StateGet))

RECURSIVE CounterNested(_)
\* the same program chained to the right:
\* increment.flatMap(() => increment.flatMap(() => getCount))
CounterNested(n) ==
    IF n = 0 THEN StateGet
    ELSE LazyFlatMap(StateModify(Fn("inc")), Konst(CounterNested(n - 1)))

\* program.run(s0), for the counter program with n increments
RunCounter ==
    /\ NoLawYet
    /\ \E n \in 0..MaxSteps, s0 \in Nums :
           Law([op |-> "runCounter", fam |-> "State", n |-> n, s0 |-> s0],
               CounterProgram(n),
               ELit(CounterNested(n)))
    /\ UNCHANGED idleLawSession

\* run, eval and exec of the StateT an expression built, each from s0
RunEvalExec(r, s0) ==
    [run |-> ObsResult(StateTRun(r.val, s0, r.w)),
     eval |-> ObsResult(StateTEval(r.val, s0, r.w)),
     exec |-> ObsResult(StateTExec(r.val, s0, r.w))]

\* the steps chained after the failing one: one flatMap, or a flatMap and a map
StepsAfter(x, g, more) ==
    IF more THEN EMap(EFlatMap(x, g), Fn("inc")) ELSE EFlatMap(x, g)

\* a StateT chain over Either whose step m.flatMap(kFail) resolves to a Left,
\* with later steps  against  the chain cut after the failing step
RunAborting ==
    /\ NoLawYet
    /\ \E m \in SampleM("StateT"), g \in KleisliFns("StateT"),
          more \in BOOLEAN, s0 \in Nums :
           /\ lastOp' = [op |-> "runAborting", fam |-> "StateT", m |-> m,
                         g |-> g, more |-> more, s0 |-> s0]
           /\ Sides([i \in 1..2 |->
                       RunEvalExec(
                           Eval(<<StepsAfter(EFlatMap(ELit(m), KFn("kFail", "StateT")),
                                             g, more),
                                  EFlatMap(ELit(m), KFn("kFail", "StateT"))>>[i],
                                Fresh),
                           s0)])
    /\ UNCHANGED idleLawSession

\* lift(ma, Mof).run(s0)  and  lift(ma, Mof).flatMap(() => get(Mof)).run(s0)
RunLift ==
    /\ NoLawYet
    /\ \E fam \in {"Either", "Except"} :
           \E ma \in SampleM(fam), s0 \in Nums :
               Law([op |-> "runLift", fam |-> fam, ma |-> ma, s0 |-> s0],
                   ELit(StateTLift(ma, fam)),
                   EFlatMap(ELit(StateTLift(ma, fam)), Konst(StateTGet(fam))))
    /\ UNCHANGED idleLawSession

\* the runs of StateT chains over a branching container
NextStateT ==
    \/ RunAborting
    \/ RunLift

SpecStateT == InitCommon /\ [][NextStateT]_vars

NextLaws ==
    \/ LawStateBind
    \/ RunCounter
    \/ LawLeftIdentity
    \/ LawFunctorIdentity
    \/ LawFunctorComposition
    \/ LawAssociativity
    \/ RunFaulty

SpecLaws == InitCommon /\ [][NextLaws]_vars

(***************************************************************************)
(* Claims about the laws.                                                  *)
(***************************************************************************)
\* the thunks a run executed (started and completed), without the calls of
\* the functions handed to map
ThunkEvents(l) == SelectSeq(l, LAMBDA e : e.ev # "call")

\* C4: left identity, for every family, every value v (host error objects
\* included) and every f: of(v).flatMap(f) is observationally equal to f(v).
C4_LeftIdentity ==
    lastOp.op = "leftIdentity" =>
        /\ lhs.ok = rhs.ok
        /\ lhs.val = rhs.val
        /\ ThunkEvents(lhs.log) = ThunkEvents(rhs.log)

\* C5: the functor laws, for every family: m.map(x => x) is observationally
\* equal to m, and m.map(f).map(g) to m.map(x => g(f(x))), also for f that
\* return an error object or null.
C5_FunctorLaws ==
    lastOp.op \in {"functorIdentity", "functorComposition"} =>
        /\ lhs.ok = rhs.ok
        /\ lhs.val = rhs.val
        /\ ThunkEvents(lhs.log) = ThunkEvents(rhs.log)

\* C6: associativity of bind for IO, AsyncIO, State and StateT over Either:
\* running m.flatMap(f).flatMap(g) and running m.flatMap(x => f(x).flatMap(g))
\* give the same result and the same events (thunks executed, functions
\* called, state transitions made) in the same order and number.
C6_Associativity ==
    lastOp.op = "associativity" => lhs = rhs

\* an IO law instance whose run executed two thunks and called f and g
C6_Witness ==
    /\ lastOp.op = "associativity"
    /\ lastOp.fam = "IO"
    /\ lastOp.m = LazyFrom("IO", Now)
    /\ lastOp.f = KFn("kPut", "IO")
    /\ lastOp.g = KFn("kGet", "IO")
    /\ Len(lhs.log) = 5
    /\ lhs.val = Num(2 % (MaxNum + 1))

\* C11: IO and AsyncIO are fault-transparent: a fault raised during run() by
\* the wrapped computation or by a function handed to map, flatMap or tap
\* reaches the caller of run() unchanged, thrown by IO.run() and as the
\* rejection of the promise AsyncIO.run() returned.
C11_FaultTransparent ==
    lastOp.op = "runFaulty" =>
        /\ ~lhs.ok
        /\ ~rhs.ok
        /\ lhs.val = rhs.val

\* the arguments the function f was called with, in order
CallArgs(l, f) ==
    LET calls == SelectSeq(l, LAMBDA e : e.ev = "call" /\ e.f = f)
    IN  [i \in 1..Len(calls) |-> calls[i].arg]

\* s0 + k, in the range of the numbers the model runs on
Plus(s0, k) == Num((s0.n + k) % (MaxNum + 1))

\* what the counter program is documented to give: value and final state
\* s0 + n, the increment having run once per step, on s0, s0 + 1, ...
CounterExpected(o, n, s0) ==
    /\ o.ok
    /\ o.val = Pair(Plus(s0, n), Plus(s0, n))
    /\ CallArgs(o.log, Fn("inc")) = [i \in 1..n |-> Plus(s0, i - 1)]

\* C12: State threads strictly left to right, once per step: m.flatMap(f) run
\* from s0 runs m's transition on s0 once, giving (a, s1), then f(a)'s
\* transition on s1 once; so n increments followed by get(), run from s0,
\* give value s0 + n and final state s0 + n (n = 2, s0 = 0 gives [2, 2]).
C12_StateThreadsOnce ==
    /\ lastOp.op = "stateBind" => lhs = rhs
    /\ lastOp.op = "runCounter" =>
          /\ CounterExpected(lhs, lastOp.n, lastOp.s0)
          /\ CounterExpected(rhs, lastOp.n, lastOp.s0)

\* the test's case: two increments then getCount, run from 0, gave [2, 2]
C12_Witness ==
    /\ lastOp.op = "runCounter"
    /\ lastOp.n = 2
    /\ lastOp.s0 = Num(0)
    /\ lhs.val = Pair(Num(2), Num(2))
    /\ Len(CallArgs(lhs.log, Fn("inc"))) = 2

\* C13: StateT over Either aborts on failure: when a step of a flatMap chain
\* resolves to a Left, run, eval and exec all return that Left, and nothing
\* of a later step runs: the events are those of the chain cut after the
\* failing step.
C13_StateTAborts ==
    lastOp.op = "runAborting" =>
        /\ lhs = rhs
        /\ \A how \in {"run", "eval", "exec"} :
              /\ lhs[how].ok
              /\ lhs[how].val = EitherLeft(Str(0))

\* put(1), then the failing step, then a put and a map that must not run
C13_Witness ==
    /\ lastOp.op = "runAborting"
    /\ lastOp.m = StateTPut(Num(1), "Either")
    /\ lastOp.g = KFn("kPut", "StateT")
    /\ lastOp.more
    /\ lhs.exec.val = EitherLeft(Str(0))
    /\ CallArgs(lhs.run.log, KFn("kFail", "StateT")) = <<Undef>>
    /\ CallArgs(lhs.run.log, KFn("kPut", "StateT")) = <<>>

\* C14: StateT.lift(ma, Mof) leaves the state untouched: run(s) gives the
\* underlying container holding (a, s) for ma's payload a, and ma's failure
\* when ma is a failure; the step after a lift sees the state that entered
\* the lift.
C14_LiftKeepsState ==
    lastOp.op = "runLift" =>
        /\ lhs.ok /\ rhs.ok
        /\ IF IsFailure(lastOp.ma)
           THEN lhs.val = lastOp.ma /\ rhs.val = lastOp.ma
           ELSE /\ lhs.val = Of(lastOp.fam, Pair(lastOp.ma.value, lastOp.s0))
                /\ rhs.val = Of(lastOp.fam, Pair(lastOp.s0, lastOp.s0))

\* lift(right(1)) run from MaxNum holds (1, MaxNum), and a get after the lift
\* reads MaxNum
C14_Witness ==
    /\ lastOp.op = "runLift"
    /\ lastOp.ma = EitherRight(Num(1))
    /\ lastOp.s0 = Num(MaxNum)
    /\ lhs.val = EitherRight(Pair(Num(1), Num(MaxNum)))
    /\ rhs.val = EitherRight(Pair(Num(MaxNum), Num(MaxNum)))

(***************************************************************************)
(* Claims about Do blocks over a branching container.                      *)
(***************************************************************************)
\* the yields of a producer that are failures
FailingYields(g) == {k \in 1..Len(g.ys) : IsFailure(g.ys[k])}

\* the first of them
FirstFailure(g) ==
    CHOOSE k \in FailingYields(g) : \A j \in FailingYields(g) : k <= j

\* the calls of iterator.next made so far
NextCalls(l) == Len(SelectSeq(l, LAMBDA e : e.ev = "next"))

\* C15: Do short-circuits with a branching container: when the k-th container
\* the producer yields is a failure, Do.run returns that failure itself and
\* the producer is not resumed past that yield: iterator.next was called k
\* times (the start and k - 1 resumptions), the producer stands at its k-th
\* yield and has not returned.
C15_DoShortCircuits ==
    (/\ lastOp.op = "Do.run"
     /\ lastOp.a \in {"Either", "Except"}
     /\ FailingYields(lastOp.b) # {}) =>
        LET k == FirstFailure(lastOp.b)
        IN  /\ cur = lastOp.b.ys[k]
            /\ NextCalls(log) = k
            /\ iters[1].pos = k
            /\ ~iters[1].done

\* a producer whose second yield is a Left: resumed once, stopped there
C15_Witness ==
    /\ lastOp.op = "Do.run"
    /\ lastOp.a = "Either"
    /\ lastOp.b.ys = <<EitherRight(Num(1)), EitherLeft(Str(0))>>
    /\ cur = EitherLeft(Str(0))
    /\ NextCalls(log) = 2
    /\ iters[1].pos = 2

(***************************************************************************)
(* Claims about the State primitives.                                      *)
(***************************************************************************)
GetThenPut == LazyFlatMap(StateGet, KFn("kPut", "State"))

\* the final state a State primitive is documented to end in, entered with s0
DocumentedFinalState(t, s0) ==
    CASE t = StateGet -> s0
      [] t.op = "gets" -> s0
      [] t \in {StatePut(n) : n \in Nums} -> t.v
      [] t.op = "modify" -> PureResult(t.f.fn, s0)
      [] t = GetThenPut -> s0

\* C16: the get/put law: get().flatMap(s => put(s)) run from s0 ends in s0
\* (exec(s0) = s0); get() and gets(f) end in the state they were entered
\* with, put(n) ends in n whatever the incoming state, modify(f) ends in
\* f(s0).
C16_GetPut ==
    /\ cur = GetThenPut => \A s0 \in Nums : StateExec(cur, s0, Fresh).val = s0
    /\ \A n \in Nums :
          cur \in {StateGet, GetThenPut, StatePut(n)}
                  \cup {StateGets(f) : f \in PureFns}
                  \cup {StateModify(f) : f \in PureFns} =>
              \A i \in 1..Len(outs) :
                  /\ outs[i].ok
                  /\ cur = StatePut(n) => outs[i].val.s = n
                  /\ outs[i].val.s = DocumentedFinalState(cur, outs[i].s0)

\* get().flatMap(s => put(s)) was run from 1 and ended in 1
C16_Witness ==
    /\ cur = GetThenPut
    /\ Len(outs) = 1
    /\ outs[1] = [s0 |-> Num(1), ok |-> TRUE, val |-> Pair(Undef, Num(1))]

(***************************************************************************)
(* Claims about the branch of an Except.                                   *)
(***************************************************************************)
\* fold and getOrElse take the success side with v: fold calls onSuccess with
\* v, getOrElse returns v without calling the fallback
SuccessSideWith(m, v) ==
    /\ ExceptFold(m, Fn("mkNull"), Fn("id"), Fresh) =
          Ret(v, Logged(Fresh, CallEvent(Fn("id"), v)))
    /\ ExceptGetOrElse(m, Fn("mkNull"), Fresh) = Ret(v, Fresh)

\* C17: the branch of an Except agrees with how it was constructed: ok(v) and
\* of(v) are in the success branch for every v (isOk() true, isError() false,
\* fold and getOrElse take the success side with v), failed(e) is in the
\* failure branch for every e, and exactly one of isOk() / isError() is true
\* of every Except.
C17_ExceptBranchAgrees ==
    cur.fam = "Except" =>
        /\ isOk(cur) # isError(cur)
        /\ (steps = 0 /\ lastOp.op \in {"ok", "of"}) =>
              /\ isOk(cur)
              /\ ~isError(cur)
              /\ SuccessSideWith(cur, lastOp.a)
        /\ (steps = 0 /\ lastOp.op = "failed") => (isError(cur) /\ ~isOk(cur))

====
